---- MODULE Spec2Model ----
(***************************************************************************)
(* Model of src/server.py: the /process-lecture handler (source            *)
(* acquisition, fixed-size chunking, upload / poll / generate per segment, *)
(* synthesis, clean-up) and the answer shuffling of /generate-quiz.        *)
(*                                                                         *)
(* Text is modelled as a sequence of tokens, so that joining and prefix    *)
(* stripping are computed, not assumed.  Optional values (Python None) are *)
(* records [some |-> FALSE] / [some |-> TRUE, val |-> v].                  *)
(***************************************************************************)
EXTENDS Integers, Sequences, FiniteSets, TLC

\* ------------------------------------------------------------------ bounds
\* Longest media, in whole chunks, that the model hands to the loop.
MaxChunks == 3
\* Most get_file polls answered PROCESSING before the remote file settles.
MaxPolls == 2
\* Most options in one quiz question.
MaxOpts == 3
\* Most questions in one quiz.
MaxQuestions == 1

\* ------------------------------------------------------- program constants
\* chunk = 2400 (seconds per segment)
chunk == 2400

\* ----------------------------------------------------------------- values
None == [some |-> FALSE]
Some(v) == [some |-> TRUE, val |-> v]

\* Variant: `if txt is not None` in place of `if txt`.
TruthyNotNone(t) == t.some

\* Python truthiness of an optional text: None and "" are falsy.
Truthy(t) == t.some /\ t.val # << >>

Min(a, b) == IF a <= b THEN a ELSE b

\* math.ceil(a / b) for integers a >= 0, b > 0.
Ceil(a, b) == IF a % b = 0 THEN a \div b ELSE (a \div b) + 1

\* Completions the remote model may return (res.text).
Texts == {<< >>, <<"a">>}

\* "\n\n".join(notes)
RECURSIVE Join(_)
Join(notes) ==
    IF notes = << >> THEN << >>
    ELSE IF Len(notes) = 1 THEN notes[1]
    ELSE notes[1] \o <<"\n", "\n">> \o Join(Tail(notes))

\* Durations get_media_duration may report: 0 (unreadable) and, for every
\* chunk count up to MaxChunks, the shortest and the longest partial last
\* segment and the exact multiple.
Durations ==
    {0} \cup { k * chunk + d : k \in 0..(MaxChunks - 1), d \in {1, chunk - 1, chunk} }

\* Remote file states reported by upload_file / get_file.
FileStates == {"PROCESSING", "ACTIVE", "FAILED"}

\* URLs as urlparse sees them: hostname, path tokens, the v query parameter.
Urls ==
    { [hostname |-> "youtu.be", path |-> <<"/", "abc">>, v |-> None],
      [hostname |-> "www.youtube.com", path |-> <<"/", "watch">>, v |-> Some(<<"id">>)],
      [hostname |-> "youtube.com", path |-> <<"/", "watch">>, v |-> None],
      [hostname |-> "youtube.com", path |-> <<"/", "abc">>, v |-> Some(<<"id">>)],
      [hostname |-> "example.com", path |-> <<"/", "watch">>, v |-> Some(<<"id">>)] }

\* Upload file names' extensions.
Exts == {".txt", ".MD", ".mp3"}

Modes == {"transcript", "audio", "video", "other"}

VARIABLES
    \* request inputs
    url, file, req_mode,
    \* locals of process_lecture_api
    pc, mode, txt, final_notes, temp_file_path, is_downloaded, dur, chunks, i, v_state,
    polls,
    \* the exception that ended the request inside the outer try, if any
    raised,
    \* environment: local temporary files, the response sent
    fs, response,
    \* observation logs: ffmpeg cuts, uploads, model calls, downloads
    cuts, uploads, calls, downloads,
    \* /generate-quiz
    qpc, quiz_in, quiz_data, qi, qresponse

lvars == <<url, file, req_mode, pc, mode, txt, final_notes, temp_file_path, is_downloaded,
           dur, chunks, i, v_state, polls, raised, fs, response, cuts, uploads, calls,
           downloads>>
qvars == <<qpc, quiz_in, quiz_data, qi, qresponse>>
vars == <<lvars, qvars>>

\* --------------------------------------------------------------- helpers
\* get_video_id(url): the video id, or None (also when parse_qs has no 'v':
\* the KeyError is swallowed by the bare except).
get_video_id(u) ==
    IF u.hostname = "youtu.be" THEN Some(Tail(u.path))
    ELSE IF u.hostname \in {"www.youtube.com", "youtube.com"} /\ u.path = <<"/", "watch">>
         THEN (IF u.v.some THEN Some(u.v.val) ELSE None)
    ELSE None

\* get_transcript(video_id): what the call may return.  The transcript
\* service raises for a missing id, which the bare except turns into None;
\* for an id it may fail (None), return no lines ("") or return text.
get_transcript(vid) ==
    IF vid.some THEN {None, Some(<< >>), Some(<<"t">>)} ELSE {None}

\* os.path.splitext(path)[1].lower()
Lower(e) == IF e = ".MD" THEN ".md" ELSE e
ExtOf(path) == path[3]
IsText(path) == Lower(ExtOf(path)) \in {".txt", ".md"}

\* download_youtube_media: ext = "mp4" if mode == "video" else "m4a"
DownloadPath(m) == <<"yt", -1, IF m = "video" THEN ".mp4" ELSE ".m4a">>
\* NamedTemporaryFile(delete=False, suffix=ext)
UploadPath(e) == <<"upload", -1, e>>
\* c_path = f"temp_chunk_{i}{ext}"
ChunkPath(k, src) == <<"chunk", k, ExtOf(src)>>

\* Variant: the last segment's end is not clamped to the duration.
SegEndNoClamp(k, d) == (k + 1) * chunk

\* start = i * chunk; end = min((i + 1) * chunk, dur)
SegStart(k) == k * chunk
SegEnd(k, d) == Min((k + 1) * chunk, d)
\* chunks = math.ceil(dur / chunk)
NumChunks(d) == Ceil(d, chunk)

\* while v_file.state.name == "PROCESSING"
StillProcessing(s) == s = "PROCESSING"

\* c_type = "video" if mode == "video" else "audio"
CType(m) == IF m = "video" THEN "video" ELSE "audio"

\* Variant: final_notes.insert(0, res.text)
CollectFront(notes, t) == <<t>> \o notes

\* final_notes.append(res.text)
Collect(notes, t) == Append(notes, t)

\* Variant: if len(final_notes) >= 1
ShouldSynthesizeAny(notes) == Len(notes) >= 1

\* if len(final_notes) > 1
ShouldSynthesize(notes) == Len(notes) > 1

\* Variant: the handler resets final_notes before the synthesis call.
SynthExceptEmpty(notes) == << >>

\* except: pass  (synthesis failed: final_notes is left as it was)
SynthExcept(notes) == notes

\* Variant: the chunk is unlinked after the append instead of in a finally,
\* so nothing is removed here.
InnerFinallyKeep(files, c_path) == files

\* inner finally: if os.path.exists(c_path): os.unlink(c_path)
InnerFinally(files, c_path) == files \ {c_path}

\* Variant: the is_downloaded test is dropped.
OuterFinallyAlways(files, dl, path) ==
    IF path.some /\ path.val \in files THEN files \ {path.val} ELSE files

\* outer finally: if is_downloaded and temp_file_path and os.path.exists(...)
OuterFinally(files, dl, path) ==
    IF dl /\ path.some /\ path.val \in files THEN files \ {path.val} ELSE files

\* Exceptions raised inside the outer try.
HTTPExc(code, d) == [type |-> "HTTPException", status |-> code, detail |-> d]
OtherExc(d) == [type |-> "Exception", status |-> 0, detail |-> d]

\* Variant: `except HTTPException: raise` ahead of the broad except.
OuterExceptPassThrough(e) ==
    [status |-> IF e.type = "HTTPException" THEN e.status ELSE 500, body |-> <<e.detail>>]

\* except Exception as e: raise HTTPException(status_code=500, detail=str(e))
\* (HTTPException is an Exception, so the 400s raised inside are caught too)
OuterExcept(e) == [status |-> 500, body |-> <<e.detail>>]

\* JSONResponse(content={"status": "success", "notes": ...})
Success(notes) == [status |-> 200, body |-> notes]
NoResponse == [status |-> 0, body |-> << >>]

\* One logged call of model.generate_content.
Call(kind, seg, st, ctype, input, ok, text) ==
    [kind |-> kind, seg |-> seg, state |-> st, ctype |-> ctype,
     input |-> input, ok |-> ok, text |-> text]

\* Outcomes of one generate_content call followed by res.text.
GenOutcomes == [ok : {TRUE}, text : Texts] \cup {[ok |-> FALSE, text |-> << >>]}

QuizIdle ==
    /\ qpc = "idle" /\ quiz_in = << >> /\ quiz_data = << >> /\ qi = 0
    /\ qresponse = NoResponse

\* ---------------------------------------------------- /process-lecture
Files == {[present |-> FALSE, named |-> FALSE, ext |-> ""],
          [present |-> TRUE, named |-> FALSE, ext |-> ""]}
         \cup { [present |-> TRUE, named |-> TRUE, ext |-> e] : e \in Exts }

LectureInit ==
    /\ url \in {None} \cup { Some(u) : u \in Urls }
    /\ file \in Files
    /\ req_mode \in Modes
    /\ mode = req_mode
    /\ pc = "start"
    /\ txt = None /\ raised = None
    /\ final_notes = << >> /\ temp_file_path = None /\ is_downloaded = FALSE
    /\ dur = 0 /\ chunks = 0 /\ i = 0 /\ v_state = "" /\ polls = 0
    /\ fs = {} /\ response = NoResponse
    /\ cuts = << >> /\ uploads = << >> /\ calls = << >> /\ downloads = << >>

Init == LectureInit /\ QuizIdle

\* The request ends with exception e: outer except, then outer finally.
Raise(e, files, dl, path) ==
    /\ raised' = Some(e)
    /\ response' = OuterExcept(e)
    /\ fs' = OuterFinally(files, dl, path)
    /\ pc' = "done"

\* url given, mode "transcript", a transcript was obtained: one completion
\* over it is the whole answer (early return; the finally has nothing to do).
TranscriptNotes ==
    /\ pc = "start" /\ url.some /\ mode = "transcript"
    /\ \E t \in get_transcript(get_video_id(url.val)), o \in GenOutcomes :
         /\ Truthy(t)
         /\ txt' = t
         /\ calls' = Append(calls, Call("transcript", -1, "", "transcript", t.val, o.ok, o.text))
         /\ IF o.ok
            THEN /\ response' = Success(o.text)
                 /\ fs' = OuterFinally(fs, is_downloaded, temp_file_path)
                 /\ pc' = "done"
                 /\ UNCHANGED raised
            ELSE Raise(OtherExc("generate"), fs, is_downloaded, temp_file_path)
    /\ UNCHANGED <<url, file, req_mode, mode, final_notes, temp_file_path, is_downloaded,
                   dur, chunks, i, v_state, polls, cuts, uploads, downloads, qvars>>

\* url given, mode "transcript", no transcript: else: mode = "audio".
TranscriptFallback ==
    /\ pc = "start" /\ url.some /\ mode = "transcript"
    /\ \E t \in get_transcript(get_video_id(url.val)) :
         /\ ~Truthy(t)
         /\ txt' = t
    /\ mode' = "audio"
    /\ pc' = IF mode' \in {"audio", "video"} THEN "download" ELSE "merge"
    /\ UNCHANGED <<raised, url, file, req_mode, final_notes, temp_file_path, is_downloaded, dur, chunks,
                   i, v_state, polls, fs, response, cuts, uploads, calls, downloads, qvars>>

\* url given, mode not "transcript": download for audio / video, otherwise
\* nothing is acquired and the handler falls through to the final return.
UrlRoute ==
    /\ pc = "start" /\ url.some /\ mode # "transcript"
    /\ pc' = IF mode \in {"audio", "video"} THEN "download" ELSE "merge"
    /\ UNCHANGED <<raised, txt, url, file, req_mode, mode, final_notes, temp_file_path, is_downloaded, dur,
                   chunks, i, v_state, polls, fs, response, cuts, uploads, calls, downloads,
                   qvars>>

\* temp_file_path = download_youtube_media(url, mode); is_downloaded = True
\* The download returns None on any error; otherwise out_path, at which the
\* downloader normally (but not necessarily) left the file.
Download ==
    /\ pc = "download"
    /\ downloads' = Append(downloads, mode)
    /\ is_downloaded' = TRUE
    /\ \E o \in {"none", "file", "nofile"} :
         IF o = "none"
         THEN /\ temp_file_path' = None
              /\ Raise(HTTPExc(400, "Download failed."), fs, TRUE, None)
         ELSE /\ temp_file_path' = Some(DownloadPath(mode))
              /\ fs' = IF o = "file" THEN fs \cup {DownloadPath(mode)} ELSE fs
              /\ pc' = "dispatch"
              /\ UNCHANGED <<response, raised>>
    /\ UNCHANGED <<txt, url, file, req_mode, mode, final_notes, dur, chunks, i, v_state, polls,
                   cuts, uploads, calls, qvars>>

\* elif file: copy the upload to a NamedTemporaryFile(delete=False).
\* os.path.splitext(None) raises when the upload has no filename.
UploadCopy ==
    /\ pc = "start" /\ ~url.some /\ file.present
    /\ IF file.named
       THEN /\ temp_file_path' = Some(UploadPath(file.ext))
            /\ fs' = fs \cup {UploadPath(file.ext)}
            /\ pc' = "dispatch"
            /\ UNCHANGED <<response, raised>>
       ELSE /\ Raise(OtherExc("TypeError"), fs, is_downloaded, temp_file_path)
            /\ UNCHANGED temp_file_path
    /\ UNCHANGED <<txt, url, file, req_mode, mode, final_notes, is_downloaded, dur, chunks, i,
                   v_state, polls, cuts, uploads, calls, downloads, qvars>>

\* neither url nor file: temp_file_path stays None.
NoSource ==
    /\ pc = "start" /\ ~url.some /\ ~file.present
    /\ pc' = "merge"
    /\ UNCHANGED <<raised, txt, url, file, req_mode, mode, final_notes, temp_file_path, is_downloaded, dur,
                   chunks, i, v_state, polls, fs, response, cuts, uploads, calls, downloads,
                   qvars>>

\* temp_file_path is a .txt / .md file: one completion over its content.
TextNotes ==
    /\ pc = "dispatch" /\ IsText(temp_file_path.val)
    /\ \E o \in GenOutcomes :
         /\ calls' = Append(calls, Call("text", -1, "", "transcript", << >>, o.ok, o.text))
         /\ IF o.ok
            THEN /\ final_notes' = Collect(final_notes, o.text)
                 /\ pc' = "merge"
                 /\ UNCHANGED <<fs, response, raised>>
            ELSE /\ Raise(OtherExc("generate"), fs, is_downloaded, temp_file_path)
                 /\ UNCHANGED final_notes
    /\ UNCHANGED <<txt, url, file, req_mode, mode, temp_file_path, is_downloaded, dur, chunks, i,
                   v_state, polls, cuts, uploads, downloads, qvars>>

\* dur = get_media_duration(temp_file_path): 0 when the file cannot be read
\* (always so when it does not exist); if dur == 0: raise; chunks = ceil(...)
Probe ==
    /\ pc = "dispatch" /\ ~IsText(temp_file_path.val)
    /\ \E d \in Durations :
         /\ (temp_file_path.val \notin fs) => d = 0
         /\ dur' = d
         /\ IF d = 0
            THEN /\ Raise(HTTPExc(400, "Invalid media."), fs, is_downloaded, temp_file_path)
                 /\ UNCHANGED <<chunks, i>>
            ELSE /\ chunks' = NumChunks(d)
                 /\ i' = 0
                 /\ pc' = "cut"
                 /\ UNCHANGED <<fs, response, raised>>
    /\ UNCHANGED <<txt, url, file, req_mode, mode, final_notes, temp_file_path, is_downloaded,
                   v_state, polls, cuts, uploads, calls, downloads, qvars>>

\* Loop body, first half: cut_media_fast(temp_file_path, c_path, start, end).
\* ffmpeg's exit status is ignored, so the chunk file may be missing; the
\* call raises only when the executable cannot be started (nothing written),
\* and it stands before the inner try.
Cut ==
    /\ pc = "cut" /\ i < chunks
    /\ cuts' = Append(cuts, [seg |-> i, start |-> SegStart(i), end |-> SegEnd(i, dur)])
    /\ \E o \in {"written", "missing", "raise"} :
         IF o = "raise"
         THEN Raise(OtherExc("ffmpeg"), fs, is_downloaded, temp_file_path)
         ELSE /\ fs' = IF o = "written"
                       THEN fs \cup {ChunkPath(i, temp_file_path.val)} ELSE fs
              /\ pc' = "upload"
              /\ UNCHANGED <<response, raised>>
    /\ UNCHANGED <<txt, url, file, req_mode, mode, final_notes, temp_file_path, is_downloaded, dur,
                   chunks, i, v_state, polls, uploads, calls, downloads, qvars>>

\* v_file = genai.upload_file(path=c_path); it raises when the chunk file is
\* missing or the service refuses.  On a raise: inner finally, outer except.
Upload ==
    /\ pc = "upload"
    /\ \E o \in FileStates \cup {"raise"} :
         /\ (ChunkPath(i, temp_file_path.val) \notin fs) => o = "raise"
         /\ IF o = "raise"
            THEN /\ Raise(OtherExc("upload"),
                          InnerFinally(fs, ChunkPath(i, temp_file_path.val)),
                          is_downloaded, temp_file_path)
                 /\ UNCHANGED <<v_state, polls, uploads>>
            ELSE /\ v_state' = o
                 /\ polls' = 0
                 /\ uploads' = Append(uploads, i)
                 /\ pc' = "poll"
                 /\ UNCHANGED <<fs, response, raised>>
    /\ UNCHANGED <<txt, url, file, req_mode, mode, final_notes, temp_file_path, is_downloaded, dur,
                   chunks, i, cuts, calls, downloads, qvars>>

\* while v_file.state.name == "PROCESSING": sleep; v_file = get_file(...)
\* (a remote file answers PROCESSING to fewer than MaxPolls polls; polls
\* counts the polls of the current segment)
Poll ==
    /\ pc = "poll" /\ StillProcessing(v_state)
    /\ \E o \in FileStates \cup {"raise"} :
         /\ (o = "PROCESSING") => polls + 1 < MaxPolls
         /\ IF o = "raise"
            THEN /\ Raise(OtherExc("get_file"),
                          InnerFinally(fs, ChunkPath(i, temp_file_path.val)),
                          is_downloaded, temp_file_path)
                 /\ UNCHANGED <<v_state, polls>>
            ELSE /\ v_state' = o
                 /\ polls' = polls + 1
                 /\ UNCHANGED <<pc, fs, response, raised>>
    /\ UNCHANGED <<txt, url, file, req_mode, mode, final_notes, temp_file_path, is_downloaded, dur,
                   chunks, i, cuts, uploads, calls, downloads, qvars>>

\* The polling loop is left: res = model.generate_content([v_file, prompt]);
\* final_notes.append(res.text); finally: unlink the chunk; next i.
Generate ==
    /\ pc = "poll" /\ ~StillProcessing(v_state)
    /\ \E o \in GenOutcomes :
         /\ calls' = Append(calls, Call("segment", i, v_state, CType(mode), << >>, o.ok, o.text))
         /\ IF o.ok
            THEN /\ final_notes' = Collect(final_notes, o.text)
                 /\ fs' = InnerFinally(fs, ChunkPath(i, temp_file_path.val))
                 /\ i' = i + 1
                 /\ polls' = 0
                 /\ pc' = IF i + 1 < chunks THEN "cut" ELSE "merge"
                 /\ UNCHANGED <<response, raised>>
            ELSE /\ Raise(OtherExc("generate"),
                          InnerFinally(fs, ChunkPath(i, temp_file_path.val)),
                          is_downloaded, temp_file_path)
                 /\ UNCHANGED <<final_notes, i, polls>>
    /\ UNCHANGED <<txt, url, file, req_mode, mode, temp_file_path, is_downloaded, dur, chunks,
                   v_state, cuts, uploads, downloads, qvars>>

\* if len(final_notes) > 1: try: final_notes = [synth_response.text]
\*                          except: pass
Synthesize ==
    /\ pc = "merge"
    /\ IF ShouldSynthesize(final_notes)
       THEN \E o \in GenOutcomes :
              /\ calls' = Append(calls, Call("synth", -1, "", "", Join(final_notes), o.ok, o.text))
              /\ final_notes' = IF o.ok THEN <<o.text>> ELSE SynthExcept(final_notes)
       ELSE UNCHANGED <<calls, final_notes>>
    /\ pc' = "respond"
    /\ UNCHANGED <<raised, txt, url, file, req_mode, mode, temp_file_path, is_downloaded, dur, chunks, i,
                   v_state, polls, fs, response, cuts, uploads, downloads, qvars>>

\* return JSONResponse({"status": "success", "notes": "\n\n".join(final_notes)})
\* and then the outer finally.
Respond ==
    /\ pc = "respond"
    /\ response' = Success(Join(final_notes))
    /\ fs' = OuterFinally(fs, is_downloaded, temp_file_path)
    /\ pc' = "done"
    /\ UNCHANGED <<raised, txt, url, file, req_mode, mode, final_notes, temp_file_path, is_downloaded, dur,
                   chunks, i, v_state, polls, cuts, uploads, calls, downloads, qvars>>

Next ==
    \/ TranscriptNotes
    \/ TranscriptFallback
    \/ UrlRoute
    \/ Download
    \/ UploadCopy
    \/ NoSource
    \/ TextNotes
    \/ Probe
    \/ Cut
    \/ Upload
    \/ Poll
    \/ Generate
    \/ Synthesize
    \/ Respond

Spec == Init /\ [][Next]_vars

\* ------------------------------------------------------- /generate-quiz
\* Option strings the model may supply, one token per character.
OptStrings == {<<"B", ")", " ", "x">>, <<"E", ")", "x">>}

\* The \s* of the pattern: leading whitespace is dropped.
RECURSIVE LStrip(_)
LStrip(t) == IF t # << >> /\ t[1] = " " THEN LStrip(Tail(t)) ELSE t

\* re.sub(r'^[A-D]\)\s*', '', opt)
Strip(opt) ==
    IF Len(opt) >= 2 /\ opt[1] \in {"A", "B", "C", "D"} /\ opt[2] = ")"
    THEN LStrip(SubSeq(opt, 3, Len(opt)))
    ELSE opt

\* [Strip(opt) for opt in q['options']]
StripAll(opts) == [k \in 1..Len(opts) |-> Strip(opts[k])]

\* if 0 <= q['answer_index'] < len(q['options'])
InRange(idx, opts) == 0 <= idx /\ idx < Len(opts)

\* random.shuffle(options): every reordering is possible.
Shuffles(opts) ==
    { [k \in 1..Len(opts) |-> opts[p[k]]] : p \in Permutations(1..Len(opts)) }

\* Variant: a 1-based position.
IndexOfOneBased(opts, text) ==
    CHOOSE k \in 1..Len(opts) :
        /\ opts[k] = text
        /\ \A j \in 1..(k - 1) : opts[j] # text

\* options.index(text): the first (0-based) position holding text.
IndexOf(opts, text) ==
    (CHOOSE k \in 1..Len(opts) :
        /\ opts[k] = text
        /\ \A j \in 1..(k - 1) : opts[j] # text) - 1

\* q['answer_index'] = q['options'].index(correct_text)
NewAnswerIndex(shuffled, correct_text) == IndexOf(shuffled, correct_text)

\* One iteration of `for q in quiz_data`: the questions it may leave.
ProcessQuestion(q) ==
    LET opts == StripAll(q.options) IN
    IF InRange(q.answer_index, opts)
    THEN LET correct_text == opts[q.answer_index + 1] IN
         { [options |-> sh, answer_index |-> NewAnswerIndex(sh, correct_text)] :
             sh \in Shuffles(opts) }
    ELSE { [options |-> opts, answer_index |-> q.answer_index] }

OptLists == UNION { [1..n -> OptStrings] : n \in 0..MaxOpts }
Questions == [options : OptLists, answer_index : -1..MaxOpts]
Quizzes == UNION { [1..n -> Questions] : n \in 0..MaxQuestions }

LectureIdle ==
    /\ url = None /\ file = [present |-> FALSE, named |-> FALSE, ext |-> ""]
    /\ req_mode = "transcript" /\ mode = "transcript"
    /\ pc = "idle"
    /\ txt = None /\ raised = None
    /\ final_notes = << >> /\ temp_file_path = None /\ is_downloaded = FALSE
    /\ dur = 0 /\ chunks = 0 /\ i = 0 /\ v_state = "" /\ polls = 0
    /\ fs = {} /\ response = NoResponse
    /\ cuts = << >> /\ uploads = << >> /\ calls = << >> /\ downloads = << >>

\* quiz_in is the JSON list the model's answer holds (when it holds one).
QuizInit ==
    /\ LectureIdle
    /\ qpc = "start"
    /\ quiz_in \in Quizzes
    /\ quiz_data = << >>
    /\ qi = 0
    /\ qresponse = NoResponse

\* res = model.generate_content(prompt); quiz_data = json.loads(text[s:e])
\* Any failure (the call, no '[' in the text, unparsable JSON) ends in the
\* handler's except: HTTPException(500).
QuizParse ==
    /\ qpc = "start"
    /\ \E ok \in BOOLEAN :
         IF ok
         THEN /\ quiz_data' = quiz_in
              /\ qi' = 0
              /\ qpc' = "loop"
              /\ UNCHANGED qresponse
         ELSE /\ qresponse' = [status |-> 500, body |-> << >>]
              /\ qpc' = "done"
              /\ UNCHANGED <<quiz_data, qi>>
    /\ UNCHANGED <<quiz_in, lvars>>

\* for q in quiz_data: strip, and when the index is in range shuffle and
\* re-point the index.
QuizQuestion ==
    /\ qpc = "loop" /\ qi < Len(quiz_data)
    /\ \E q \in ProcessQuestion(quiz_data[qi + 1]) :
         quiz_data' = [quiz_data EXCEPT ![qi + 1] = q]
    /\ qi' = qi + 1
    /\ UNCHANGED <<qpc, quiz_in, qresponse, lvars>>

\* return JSONResponse(content=quiz_data)
QuizRespond ==
    /\ qpc = "loop" /\ qi = Len(quiz_data)
    /\ qresponse' = [status |-> 200, body |-> quiz_data]
    /\ qpc' = "done"
    /\ UNCHANGED <<quiz_in, quiz_data, qi, lvars>>

QuizNext ==
    \/ QuizParse
    \/ QuizQuestion
    \/ QuizRespond

SpecQuiz == QuizInit /\ [][QuizNext]_vars

\* ================================================================ claims
\* Observations over the logs.
SegCalls == SelectSeq(calls, LAMBDA c : c.kind = "segment")
SynthCalls == SelectSeq(calls, LAMBDA c : c.kind = "synth")
TranscriptCalls == SelectSeq(calls, LAMBDA c : c.kind = "transcript")
\* The completions that were collected as fragments, in call order.
FragCalls == SelectSeq(calls, LAMBDA c : c.ok /\ c.kind \in {"segment", "text"})
Frags == [k \in 1..Len(FragCalls) |-> FragCalls[k].text]
ChunkFiles == { p \in fs : p[1] = "chunk" }
Answered == pc = "done"
Succeeded == pc = "done" /\ response.status = 200
\* The segment loop ran to its end without an exception.
LoopCompleted == dur > 0 /\ (pc \in {"merge", "respond"} \/ (pc = "done" /\ ~raised.some))

\* C1: for media of positive duration dur the loop cuts ceil(dur/2400)
\* segments, segment k (0-based) spanning [2400*k, min(2400*(k+1), dur)];
\* the segments are contiguous, do not overlap, cover exactly [0, dur], and
\* each is longer than 0 and at most 2400.
C1_FixedWindows ==
    dur > 0 =>
      /\ (chunks - 1) * 2400 < dur /\ dur <= chunks * 2400
      /\ Len(cuts) <= chunks
      /\ \A k \in 1..Len(cuts) :
           /\ cuts[k].seg = k - 1
           /\ cuts[k].start = 2400 * (k - 1)
           /\ cuts[k].end = IF 2400 * k <= dur THEN 2400 * k ELSE dur
           /\ cuts[k].end - cuts[k].start > 0
           /\ cuts[k].end - cuts[k].start <= 2400
           /\ (k = 1) => cuts[k].start = 0
           /\ (k > 1) => cuts[k].start = cuts[k - 1].end
      /\ LoopCompleted => (Len(cuts) = chunks /\ cuts[chunks].end = dur)

\* A three-segment run whose last segment is one second long went through.
C1_Witness ==
    /\ pc = "merge" /\ dur = 2 * 2400 + 1 /\ Len(cuts) = 3
    /\ cuts[3].start = 4800 /\ cuts[3].end = 4801

\* C2: a segment's completion is requested only for an uploaded segment
\* whose remote file polling has seen ready (ACTIVE): never while it is
\* PROCESSING, never after it ended in another state such as FAILED.
C2_CompletionOnlyWhenReady ==
    \A k \in 1..Len(SegCalls) :
        /\ SegCalls[k].state = "ACTIVE"
        /\ \E u \in 1..Len(uploads) : uploads[u] = SegCalls[k].seg

\* C3: the synthesis call is made at most once and only when more than one
\* fragment was collected; a request that reaches the end of the segment
\* loop makes it exactly when more than one fragment was collected; when it
\* succeeds the notes returned are its output; with exactly one fragment no
\* synthesis call is made and the notes returned are that fragment.
C3_MergeIffSeveral ==
    /\ Len(SynthCalls) <= 1
    /\ (Len(SynthCalls) = 1) => Len(Frags) > 1
    /\ (pc = "respond" \/ Succeeded) => (Len(SynthCalls) = 1 <=> Len(Frags) > 1)
    /\ (Succeeded /\ Len(SynthCalls) = 1 /\ SynthCalls[1].ok)
          => response.body = SynthCalls[1].text
    /\ (Succeeded /\ Len(Frags) = 1)
          => (Len(SynthCalls) = 0 /\ response.body = Frags[1])

\* Three fragments were merged and the merged text is what was returned.
C3_Witness ==
    /\ Succeeded /\ Len(Frags) = 3 /\ Len(SynthCalls) = 1 /\ SynthCalls[1].ok
    /\ SynthCalls[1].text = <<"a">> /\ Frags[3] = << >> /\ response.body = <<"a">>

\* C4: every failure raised inside the handler's try (download failed, zero
\* or unreadable duration, an error in cutting, uploading, polling or
\* generating) ends the request with status 500, never with a success.
C4_FailureIs500 ==
    /\ raised.some => (pc = "done" /\ response.status = 500)
    /\ (response.status = 200) => ~raised.some
    /\ Answered => response.status \in {200, 500}

\* The 400 raised for unreadable media came out as a 500.
C4_Witness ==
    /\ Answered /\ raised.some /\ raised.val.type = "HTTPException"
    /\ raised.val.status = 400 /\ raised.val.detail = "Invalid media."
    /\ response.status = 500

\* C5: a url request in mode "transcript" for which no transcript is
\* obtained raises nothing for that and goes on as an "audio" request (audio
\* download, then the pipeline with content type audio); when a transcript
\* is obtained nothing is downloaded and the notes are the one completion
\* over the transcript.
C5_TranscriptFallback ==
    (req_mode = "transcript" /\ url.some /\ pc # "start") =>
      IF txt.some /\ txt.val # << >>
      THEN /\ Answered
           /\ downloads = << >> /\ fs = {} /\ ~is_downloaded
           /\ Len(calls) = 1 /\ calls[1].kind = "transcript" /\ calls[1].input = txt.val
           /\ (response.status = 200) => response.body = calls[1].text
      ELSE /\ mode = "audio"
           /\ Len(TranscriptCalls) = 0
           /\ (pc = "download") => (response = NoResponse /\ ~raised.some /\ downloads = << >>)
           /\ (pc # "download") => (downloads = <<"audio">> /\ is_downloaded)
           /\ temp_file_path.some => temp_file_path.val = <<"yt", -1, ".m4a">>
           /\ \A k \in 1..Len(calls) :
                calls[k].kind \in {"segment", "synth"}
                /\ (calls[k].kind = "segment" => calls[k].ctype = "audio")
           /\ Succeeded => (Len(cuts) = chunks /\ chunks >= 1 /\ Len(Frags) = chunks)

\* An unrecognised url fell back to audio and two segments were processed.
C5_Witness ==
    /\ req_mode = "transcript" /\ url.some /\ url.val.hostname = "example.com"
    /\ ~txt.some /\ Succeeded /\ mode = "audio" /\ downloads = <<"audio">>
    /\ chunks = 2 /\ Len(SegCalls) = 2 /\ SegCalls[2].ctype = "audio"

\* C6: segments are processed one at a time in index order: nothing of
\* segment k+1 (cut, upload, completion request) starts before segment k's
\* completion was collected, the fragments collected so far are the outputs
\* of segments 0..k-1 in order, and after a successful loop over n segments
\* there are n fragments, fragment k being the output for segment k.
C6_InOrder ==
    (dur > 0 /\ (pc \in {"cut", "upload", "poll", "merge"} \/ (pc = "done" /\ raised.some))) =>
      /\ i = Len(final_notes)
      /\ Len(final_notes) = Len(FragCalls)
      /\ \A k \in 1..Len(final_notes) :
           FragCalls[k].kind = "segment" /\ FragCalls[k].seg = k - 1
           /\ final_notes[k] = FragCalls[k].text
      /\ \A k \in 1..Len(cuts) : cuts[k].seg = k - 1
      /\ \A k \in 1..Len(uploads) : uploads[k] = k - 1
      /\ \A k \in 1..Len(SegCalls) : SegCalls[k].seg = k - 1
      /\ Len(cuts) <= Len(final_notes) + 1
      /\ Len(uploads) <= Len(final_notes) + 1
      /\ Len(SegCalls) <= Len(final_notes) + 1
      /\ Len(SegCalls) <= Len(uploads) /\ Len(uploads) <= Len(cuts)
      /\ (pc = "cut") => Len(cuts) = Len(final_notes)
      /\ (pc = "merge") => Len(final_notes) = chunks

\* Three segments were collected, with different outputs, in order.
C6_Witness ==
    /\ pc = "merge" /\ chunks = 3
    /\ final_notes = << <<"a">>, << >>, <<"a">> >>
    /\ SegCalls[2].seg = 1 /\ SegCalls[2].text = << >>

\* C7: the chunk file of segment i is gone when segment i's processing ends,
\* by success or by exception: at most one chunk file exists at any time,
\* only the current segment's, and none exists when the response is made.
C7_ChunkFilesRemoved ==
    /\ Cardinality(ChunkFiles) <= 1
    /\ (pc \in {"upload", "poll"}) => ChunkFiles \subseteq {<<"chunk", i, temp_file_path.val[3]>>}
    /\ (pc \notin {"upload", "poll"}) => ChunkFiles = {}

\* The second segment was uploaded, its completion failed, its chunk is gone.
C7_Witness ==
    /\ Answered /\ raised.some /\ raised.val.detail = "generate"
    /\ Len(uploads) = 2 /\ Len(SegCalls) = 2 /\ ~SegCalls[2].ok
    /\ ChunkFiles = {}

\* C8: a failed synthesis call is swallowed and not retried: the request
\* still succeeds and its notes are all fragments, in segment order, joined
\* by a blank line.
C8_MergeFailureKeepsFragments ==
    (Len(SynthCalls) >= 1 /\ ~SynthCalls[1].ok) =>
      /\ Len(SynthCalls) = 1
      /\ ~raised.some
      /\ pc \in {"respond", "done"}
      /\ final_notes = Frags
      /\ Len(Frags) > 1
      /\ \A k \in 1..Len(Frags) : FragCalls[k].kind = "segment" /\ FragCalls[k].seg = k - 1
      /\ Answered =>
           /\ response.status = 200
           /\ response.body = Join(Frags)
           /\ (Len(Frags) = 2) => response.body = Frags[1] \o <<"\n", "\n">> \o Frags[2]

\* Two fragments, the synthesis failed, both came back joined.
C8_Witness ==
    /\ Succeeded /\ Len(SynthCalls) = 1 /\ ~SynthCalls[1].ok
    /\ Frags = << <<"a">>, <<"a">> >>
    /\ response.body = <<"a", "\n", "\n", "a">>

Count(opts, t) == Cardinality({ k \in 1..Len(opts) : opts[k] = t })
C9_ShuffleKeepsAnswer ==
    \A n \in 1..qi :
        LET orig == quiz_in[n]
            new == quiz_data[n]
            stripped == [k \in 1..Len(orig.options) |-> Strip(orig.options[k])]
        IN IF 0 <= orig.answer_index /\ orig.answer_index < Len(orig.options)
           THEN /\ Len(new.options) = Len(stripped)
                /\ \A k \in 1..Len(stripped) :
                     Count(new.options, stripped[k]) = Count(stripped, stripped[k])
                /\ 0 <= new.answer_index /\ new.answer_index < Len(new.options)
                /\ new.options[new.answer_index + 1] = stripped[orig.answer_index + 1]
           ELSE /\ new.options = stripped
                /\ new.answer_index = orig.answer_index

\* A three-option question came back reordered with its index moved.
C9_Witness ==
    /\ qpc = "done" /\ qresponse.status = 200 /\ Len(quiz_in) = 1
    /\ Len(quiz_in[1].options) = 3 /\ quiz_in[1].answer_index = 2
    /\ quiz_in[1].options[3] = <<"B", ")", " ", "x">>
    /\ qresponse.body[1].options[1] = <<"x">>
    /\ qresponse.body[1].answer_index = 0

====
